---- MODULE Spec2Model ----
(***************************************************************************)
(* State-machine model of the two scripts of win-iso-downloader:           *)
(*   download_iso.py  - get_windows_iso_url, the heuristic URL resolver    *)
(*   download_esd.py  - main, the catalog resolver, download and convert   *)
(* Network replies, tool results and file contents are the environment:    *)
(* every operation draws them from small sets with \E.                     *)
(***************************************************************************)
EXTENDS Integers, Sequences, FiniteSets, TLC

VARIABLES
    \* ---- download_iso.py: get_windows_iso_url ----
    pcIso,       \* position in get_windows_iso_url
    endpoint,    \* index into api_endpoints of the current / next request
    content,     \* what the two re.findall calls find in the decoded body
    linkid,      \* index into content.linkids of the identifier to probe next
    base,        \* index into base_urls   (outer loop of Stage 2)
    iso,         \* index into iso_names   (inner loop of Stage 2)
    iso_url,     \* the value get_windows_iso_url returned (NoUrl before)
    requested,   \* history: endpoints requested so far, in order
    probed,      \* history: <<base, iso>> pairs HEAD-probed so far, in order
    lastStatus,  \* history: status of the latest Stage 2 probe (0: none/error)
    first2xx,    \* history: first pair whose probe reported any 2xx status
    first200,    \* history: first pair whose probe reported status 200
    anyReply,    \* history: some request or probe got a reply (did not fail)
    via,         \* history: the return statement taken
    errors,      \* history: the exceptions requests and probes raised so far
    tested,      \* history: identifiers of this response probed so far, in order
    lastLocation,\* history: what the latest LinkID probe of this response met
    \* ---- download_esd.py: main ----
    pcEsd,       \* position in main
    tools,       \* host: the executables found on PATH
    served,      \* vendor: the File entries of the published products.xml
    cab_path,    \* the NamedTemporaryFile: "none", "exists" or "unlinked"
    products_xml,\* tmpdir/products.xml: NoFile or its text
    xml_content, \* what extract_xml_from_cab returned (NoText before)
    root,        \* File elements of the parsed tree, in document order
    file_elem,   \* index into root of the element the loop is at
    found,       \* the dict built for the matching element (NoFound: None)
    win_esd,     \* the file win.esd: "absent", "partial", "complete", "errorpage"
    win_wim,     \* the file win.wim: "absent" or "created"
    outcome,     \* how main ended: exit reason or exception type ("none" before)
    attempted,   \* history: extraction methods attempted, in order
    started,     \* history: later steps begun ("download_esd", "convert")
    cab_data,    \* the bytes read back from the .cab by the raw scan
    run,         \* number of this run of the script on the host (0: not run)
    prev         \* history: how the match of the latest earlier run ended

isoVars == <<pcIso, endpoint, content, linkid, base, iso, iso_url, requested,
             probed, lastStatus, first2xx, first200, anyReply, via,
             errors, tested, lastLocation>>

esdVars == <<pcEsd, tools, served, cab_path, products_xml, xml_content, root,
             file_elem, found, win_esd, win_wim, outcome, attempted, started,
             cab_data, run, prev>>

vars == <<isoVars, esdVars>>

----------------------------------------------------------------------------
\* Bounds of the model (not program constants).

\* at most this many matches of each regular expression in one response body
MaxMatches == 2
\* number of distinct values a matched direct URL / link identifier can take
NumIds == 2
\* at most this many chunks in a .cab handed to the raw scan on its own
MaxBuf == 4
\* at most this many runs of download_esd.py, one after another, on a host
MaxRuns == 2
\* at most this many File entries in the served catalog
MaxEntries == 2

----------------------------------------------------------------------------
\* Generic helpers.

SeqsUpTo(S, n) == UNION { [1..k -> S] : k \in 0..n }

Last(s) == s[Len(s)]

IsPrefix(s, t) == Len(s) <= Len(t) /\ \A k \in 1..Len(s) : s[k] = t[k]

----------------------------------------------------------------------------
\* download_iso.py: data.

api_endpoints == <<"evalcenter/api/products/getproducts",
                   "api/controls/contentinclude/html",
                   "software-download/windows10ISO/ajax">>

base_urls == <<"software-static/sg/download/888969d5",
               "software-static/dbazure",
               "software/sg">>

iso_names == <<"19045.2006_CLIENTENTERPRISEEVAL_x64FRE_en-us.iso",
               "Win10_22H2_EnterpriseEval_x64.iso",
               "Win10_22H2_English_x64.iso",
               "Win10_22H2_English_x64v1.iso",
               "SERVER_EVAL_x64FRE_en-us.iso">>

\* URLs are triples <<kind, a, b>>.
NoUrl == <<"none", 0, 0>>
\* iso_urls[0]: a URL the first regular expression matched in a body
DirectUrl(u) == <<"direct", u, 0>>
\* test_url of Stage 1: the redirect link of an identifier
LinkUrl(id) == <<"fwlink", id, 0>>
\* test_url of Stage 2: base + iso
CdnUrl(b, n) == <<"cdn", b, n>>
\* the hardcoded last-resort link
FallbackUrl == <<"fwlink-fallback", 2195280, 0>>

IsUrl(u) == u # NoUrl /\ u[1] \in {"direct", "fwlink", "cdn", "fwlink-fallback"}

\* What the two findall calls can produce from a decoded body.
Bodies == [iso_urls : SeqsUpTo(1..NumIds, MaxMatches),
           linkids  : SeqsUpTo(1..NumIds, MaxMatches)]

NoContent == [iso_urls |-> <<>>, linkids |-> <<>>]

\* Exceptions urlopen / read / decode can raise for a request.
RequestErrors == {"URLError", "HTTPError", "timeout", "UnicodeDecodeError"}
\* Exceptions a HEAD probe can raise (no body is decoded).
ProbeErrors == {"URLError", "HTTPError", "timeout"}
\* Statuses urlopen hands back without raising: the 2xx class.
ReplyStatuses == {200, 204}

\* `except Exception` of the endpoint loop: all of these derive from Exception.
\* (as `except urllib.error.URLError` would: HTTPError is a URLError)
CaughtOnlyURLError(e) == e \in {"URLError", "HTTPError"}
CaughtByExceptException(e) == e \in RequestErrors

\* bare `except:` around each HEAD probe: catches everything.
CaughtByBareExcept(e) == TRUE

\* `if iso_urls:` - the body holds a match of the direct-URL pattern
\* (with the LinkIDs of the body given precedence)
HasDirectAndNoLinkIds(body) == body.iso_urls # <<>> /\ body.linkids = <<>>
HasDirect(body) == body.iso_urls # <<>>

\* `if '.iso' in resp.url` of the LinkID probe
\* (with any reply to the HEAD probe accepted)
AcceptAnyLocation(hasIso) == TRUE
AcceptLocation(hasIso) == hasIso

\* `if response.status == 200` of the Stage 2 probe
AcceptStatus(s) == s = 200

\* The pair the nested for loops visit after <<b, n>>; <<0, 0>> when exhausted.
\* (with the two loops swapped)
NextPairNameMajor(b, n) ==
    IF b < Len(base_urls) THEN <<b + 1, n>>
    ELSE IF n < Len(iso_names) THEN <<1, n + 1>>
    ELSE <<0, 0>>
\* (with the outer loop left after its first pass)
NextPairFirstBaseOnly(b, n) ==
    IF n < Len(iso_names) THEN <<b, n + 1>> ELSE <<0, 0>>
NextPair(b, n) ==
    IF n < Len(iso_names) THEN <<b, n + 1>>
    ELSE IF b < Len(base_urls) THEN <<b + 1, 1>>
    ELSE <<0, 0>>

----------------------------------------------------------------------------
\* download_iso.py: get_windows_iso_url.

InitIso ==
    /\ pcIso = "stage1"
    /\ endpoint = 1
    /\ content = NoContent
    /\ linkid = 0
    /\ base = 0
    /\ iso = 0
    /\ iso_url = NoUrl
    /\ requested = <<>>
    /\ probed = <<>>
    /\ lastStatus = 0
    /\ first2xx = <<0, 0>>
    /\ first200 = <<0, 0>>
    /\ anyReply = FALSE
    /\ via = "none"
    /\ errors = {}
    /\ tested = <<>>
    /\ lastLocation = "none"

\* `continue` of the endpoint loop (or falling out of its body): the next
\* endpoint, or on to "Checking known CDN patterns" after the last one.
\* (with `break` for `continue`)
NextEndpointSkipsRest ==
    /\ content' = NoContent
    /\ linkid' = 0
    /\ endpoint' = Len(api_endpoints) + 1
    /\ pcIso' = "stage2"
    /\ base' = 1
    /\ iso' = 1
NextEndpoint ==
    /\ content' = NoContent
    /\ linkid' = 0
    /\ endpoint' = endpoint + 1
    /\ IF endpoint < Len(api_endpoints)
          THEN pcIso' = "stage1" /\ UNCHANGED <<base, iso>>
          ELSE pcIso' = "stage2" /\ base' = 1 /\ iso' = 1

\* return statement: the function ends with value u.
Return(u, site) ==
    /\ pcIso' = "returned"
    /\ iso_url' = u
    /\ via' = site

\* An exception no handler catches leaves the function.
Raise ==
    /\ pcIso' = "raised"
    /\ UNCHANGED <<iso_url, via>>

\* One iteration of `for endpoint in api_endpoints` up to the LinkID loop.
Stage1Request ==
    /\ UNCHANGED esdVars
    /\ pcIso = "stage1"
    /\ requested' = Append(requested, endpoint)
    /\ UNCHANGED <<probed, lastStatus, first2xx, first200, tested, lastLocation>>
    /\ \/ \E e \in RequestErrors :
            /\ errors' = errors \cup {e}
            /\ UNCHANGED anyReply
            /\ IF CaughtByExceptException(e)
                  THEN NextEndpoint /\ UNCHANGED <<iso_url, via>>
                  ELSE Raise /\ UNCHANGED <<endpoint, content, linkid, base, iso>>
       \/ \E body \in Bodies :
            /\ anyReply' = TRUE
            /\ UNCHANGED errors
            /\ IF HasDirect(body)
                  THEN /\ Return(DirectUrl(body.iso_urls[1]), "stage1_direct")
                       /\ content' = body
                       /\ UNCHANGED <<endpoint, linkid, base, iso>>
                  ELSE IF body.linkids # <<>>
                  THEN /\ pcIso' = "linkid"
                       /\ content' = body
                       /\ linkid' = 1
                       /\ UNCHANGED <<endpoint, base, iso, iso_url, via>>
                  ELSE NextEndpoint /\ UNCHANGED <<iso_url, via>>

\* `continue` / fall-through of `for linkid in linkids`.
NextLinkId ==
    IF linkid < Len(content.linkids)
       THEN /\ linkid' = linkid + 1
            /\ UNCHANGED <<pcIso, endpoint, content, base, iso>>
       ELSE NextEndpoint

\* History of the LinkID loop: the identifier just probed and what its probe
\* met; forgotten when the loop over this response's identifiers is left.
Tested(met) ==
    IF pcIso' \in {"stage1", "stage2"}
       THEN tested' = <<>> /\ lastLocation' = "none"
       ELSE /\ tested' = Append(tested, content.linkids[linkid])
            /\ lastLocation' = met

\* One iteration of `for linkid in linkids`: the HEAD probe of the redirect.
LinkIdProbe ==
    /\ UNCHANGED esdVars
    /\ pcIso = "linkid"
    /\ UNCHANGED <<requested, probed, lastStatus, first2xx, first200>>
    /\ \/ \E e \in ProbeErrors :
            /\ errors' = errors \cup {e}
            /\ UNCHANGED anyReply
            /\ IF CaughtByBareExcept(e)
                  THEN NextLinkId /\ UNCHANGED <<iso_url, via>>
                  ELSE Raise /\ UNCHANGED <<endpoint, content, linkid, base, iso>>
            /\ Tested("error")
       \/ \E hasIso \in BOOLEAN :
            /\ anyReply' = TRUE
            /\ UNCHANGED errors
            /\ IF AcceptLocation(hasIso)
                  THEN /\ Return(LinkUrl(content.linkids[linkid]), "stage1_linkid")
                       /\ UNCHANGED <<endpoint, content, linkid, base, iso>>
                  ELSE NextLinkId /\ UNCHANGED <<iso_url, via>>
            /\ Tested(IF hasIso THEN "iso" ELSE "other")

\* `continue` / fall-through of the nested Stage 2 loops.
NextProbe ==
    LET p == NextPair(base, iso) IN
    /\ base' = p[1]
    /\ iso' = p[2]
    /\ pcIso' = IF p = <<0, 0>> THEN "stage3" ELSE "stage2"
    /\ UNCHANGED <<endpoint, content, linkid, iso_url, via>>

\* One iteration of `for base ... for iso ...`: the HEAD probe of base + iso.
Stage2Probe ==
    /\ UNCHANGED esdVars
    /\ pcIso = "stage2"
    /\ probed' = Append(probed, <<base, iso>>)
    /\ UNCHANGED <<requested, tested, lastLocation>>
    /\ \/ \E e \in ProbeErrors :
            /\ errors' = errors \cup {e}
            /\ lastStatus' = 0
            /\ UNCHANGED <<anyReply, first2xx, first200>>
            /\ IF CaughtByBareExcept(e)
                  THEN NextProbe
                  ELSE Raise /\ UNCHANGED <<endpoint, content, linkid, base, iso>>
       \/ \E s \in ReplyStatuses :
            /\ UNCHANGED errors
            /\ lastStatus' = s
            /\ anyReply' = TRUE
            /\ first2xx' = IF first2xx = <<0, 0>> THEN <<base, iso>> ELSE first2xx
            /\ first200' = IF first200 = <<0, 0>> /\ s = 200
                              THEN <<base, iso>> ELSE first200
            /\ IF AcceptStatus(s)
                  THEN /\ Return(CdnUrl(base, iso), "stage2")
                       /\ UNCHANGED <<endpoint, content, linkid, base, iso>>
                  ELSE NextProbe

\* "Using fallback evaluation ISO link": the last return statement.
Stage3Fallback ==
    /\ UNCHANGED esdVars
    /\ pcIso = "stage3"
    /\ Return(FallbackUrl, "stage3")
    /\ UNCHANGED <<endpoint, content, linkid, base, iso, requested, probed,
                   lastStatus, first2xx, first200, anyReply, errors, tested,
                   lastLocation>>

NextIso == Stage1Request \/ LinkIdProbe \/ Stage2Probe \/ Stage3Fallback

\* download_iso(iso_url): urlretrieve either completes, or raises (transport
\* error or HTTP error status), which is printed and ends in sys.exit(1).
DownloadIso ==
    /\ pcIso = "returned"
    /\ \/ pcIso' = "downloaded"
       \/ pcIso' = "download_failed_exit1"
    /\ UNCHANGED <<endpoint, content, linkid, base, iso, iso_url, requested,
                   probed, lastStatus, first2xx, first200, anyReply, via,
                   errors, tested, lastLocation>>
    /\ UNCHANGED esdVars

----------------------------------------------------------------------------
\* download_esd.py: data.

\* The executables the script looks up or runs.
ToolNames == {"cabextract", "tar", "7z", "wimlib-imagex"}

\* The query hard-wired into the loop of main.
QueryLang == "en-us"
QueryEdition == "EnterpriseN"
QueryArch == "x64"

\* file_elem.find(...) is None: the child element is absent.
Absent == "<absent>"
AbsentSize == -1

\* 1024**3, the divisor of the Size text
GiB == 1073741824

\* A well-formed, complete File entry equal to the query.
Canon == [LanguageCode |-> QueryLang, Edition |-> QueryEdition,
          Architecture |-> QueryArch, FilePath |-> "https://example/x.esd",
          Size |-> 1610612736]

\* The entries catalogs are built from: Canon and entries that differ from it
\* in one child (absent, or present with another text).
Entries ==
    { Canon,
      [Canon EXCEPT !.LanguageCode = Absent],
      [Canon EXCEPT !.LanguageCode = "EN-US"],
      [Canon EXCEPT !.Edition = "Professional"],
      [Canon EXCEPT !.Architecture = Absent],
      [Canon EXCEPT !.FilePath = Absent],
      [Canon EXCEPT !.FilePath = "https://example/y.esd"],
      [Canon EXCEPT !.Size = AbsentSize] }

\* Texts are sequences of chunks. "<Products>" stands for the serialised
\* Products element up to its end tag, "junk" for any other bytes, "\xff" for
\* bytes that are not UTF-8.
XmlStart == "<?xml"
XmlEnd == "</Products>"
GoodXml == <<XmlStart, "<Products>", XmlEnd>>
NoFile == <<"<no file>">>
NoText == <<"<None>">>

\* What an extraction tool can leave in tmpdir/products.xml.
FileTexts == { <<>>, <<"junk">>, <<"\\xff">>, GoodXml }

\* Raw contents of the downloaded .cab the byte scan can meet.
\* The chunks a .cab is made of, for the scan taken on its own.
Chunks == {XmlStart, XmlEnd, "junk", "\\xff"}

CabSamples == { <<"junk">>,
                <<"junk", XmlStart, "<Products>", XmlEnd, "junk">>,
                <<XmlEnd, XmlStart, "<Products>">>,
                <<XmlStart, "junk">>,
                <<XmlStart, "\\xff", XmlEnd>>,
                <<XmlStart, "junk", XmlEnd, XmlEnd>> }

\* Exceptions download_file can raise: requests.get fails before the target is
\* opened, or iter_content fails after part of it was written.
DownloadErrors == {"ConnectionError", "ChunkedEncodingError"}

NoFound == [url |-> Absent, size |-> <<0, 0>>]

\* No earlier run of the script got as far as the match.
NoPrev == [done |-> FALSE, found |-> NoFound, file_elem |-> 0, crashed |-> FALSE]

RECURSIVE GCD(_, _)
GCD(a, b) == IF b = 0 THEN a ELSE GCD(b, a % b)

\* int(text) / (1024**3): the quotient as the fraction <<numerator,
\* denominator>> in lowest terms; <<n, 1>> is the whole number n.
SizeInGiB(bytes) == <<bytes \div GCD(bytes, GiB), GiB \div GCD(bytes, GiB)>>

\* open(..., encoding='utf-8').read() / bytes.decode('utf-8') succeeds
Decodable(text) == \A k \in 1..Len(text) : text[k] # "\\xff"

\* ET.fromstring(text) succeeds: one document, nothing before or after it
WellFormed(text) == text = GoodXml \/ text = Tail(GoodXml)

\* bytes.find(marker, from): the first position >= from holding marker, 0 for -1
RECURSIVE Find(_, _, _)
Find(data, marker, from) ==
    IF from > Len(data) THEN 0
    ELSE IF data[from] = marker THEN from
    ELSE Find(data, marker, from + 1)

\* The last-resort scan of extract_xml_from_cab: the slice, or NoText when it
\* falls through to the raise.
\* (with the end marker searched from the start of the buffer)
ScanXmlEndFromTop(data) ==
    LET xml_start == Find(data, XmlStart, 1) IN
    IF xml_start = 0 THEN NoText
    ELSE LET xml_end == Find(data, XmlEnd, 1) IN
         IF xml_end = 0 THEN NoText
         ELSE SubSeq(data, xml_start, xml_end)
ScanXml(data) ==
    LET xml_start == Find(data, XmlStart, 1) IN
    IF xml_start = 0 THEN NoText
    ELSE LET xml_end == Find(data, XmlEnd, xml_start) IN
         IF xml_end = 0 THEN NoText
         ELSE SubSeq(data, xml_start, xml_end)

\* check_tools: the reason it exits with status 1, or "ok".
check_tools(t) ==
    IF "cabextract" \notin t /\ "tar" \notin t THEN "missing_cab_tool"
    ELSE IF "wimlib-imagex" \notin t THEN "missing_wimlib"
    ELSE "ok"

\* The condition of the `if` in the loop over root.findall(".//File").
\* (with the language compared case-insensitively)
MatchesIgnoringCase(e) ==
    /\ e.LanguageCode \in {QueryLang, "EN-US"}
    /\ e.Edition = QueryEdition
    /\ e.Architecture = QueryArch
MatchesQuery(e) ==
    /\ e.LanguageCode # Absent /\ e.LanguageCode = QueryLang
    /\ e.Edition # Absent /\ e.Edition = QueryEdition
    /\ e.Architecture # Absent /\ e.Architecture = QueryArch

\* The element the loop over root.findall(".//File") starts at: each run
\* parses the catalog anew and iterates from its first element.
LoopStartAfterPrevious == IF prev.done THEN prev.file_elem + 1 ELSE 1
LoopStart == 1

\* `if not found`
\* (with the test dropped)
NotFoundNever(f) == FALSE
NotFound(f) == f = NoFound

----------------------------------------------------------------------------
\* download_esd.py: main.

InitEsd ==
    /\ pcEsd = "check_tools"
    /\ tools \in SUBSET ToolNames
    /\ served \in SeqsUpTo(Entries, MaxEntries)
    /\ cab_path = "none"
    /\ products_xml = NoFile
    /\ xml_content = NoText
    /\ root = <<>>
    /\ file_elem = 0
    /\ found = NoFound
    /\ win_esd \in {"absent", "complete", "partial"}
    /\ win_wim = "absent"
    /\ outcome = "none"
    /\ attempted = <<>>
    /\ started = {}
    /\ cab_data = NoText
    /\ run = 1
    /\ prev = NoPrev

\* sys.exit(1) after printing the message for `reason`.
Exit1(reason) ==
    /\ pcEsd' = "exit1"
    /\ outcome' = reason

\* An exception leaves main.
Raised(e) ==
    /\ pcEsd' = "raised"
    /\ outcome' = e

\* The finally clause of the try around extraction and parsing.
Finally == cab_path' = "unlinked"

\* line 114: check_tools()
CheckTools ==
    /\ pcEsd = "check_tools"
    /\ IF check_tools(tools) = "ok"
          THEN pcEsd' = "download_cab" /\ UNCHANGED outcome
          ELSE Exit1(check_tools(tools))
    /\ UNCHANGED <<tools, served, cab_path, products_xml, xml_content, root,
                   file_elem, found, win_esd, win_wim, attempted, started>>
    /\ UNCHANGED <<cab_data, run, prev>>
    /\ UNCHANGED isoVars

\* lines 120-122: the temporary file is created (delete=False) and the catalog
\* is downloaded into it; an exception of download_file leaves the with block.
DownloadCab ==
    /\ pcEsd = "download_cab"
    /\ cab_path' = "exists"
    /\ \/ pcEsd' = "cabextract" /\ UNCHANGED outcome
       \/ \E e \in DownloadErrors : Raised(e)
    /\ UNCHANGED <<tools, served, products_xml, xml_content, root, file_elem,
                   found, win_esd, win_wim, attempted, started>>
    /\ UNCHANGED <<cab_data, run, prev>>
    /\ UNCHANGED isoVars

\* extract_xml_from_cab returns text: on to ET.fromstring. The
\* TemporaryDirectory is removed.
ExtractReturns(text) ==
    /\ xml_content' = text
    /\ products_xml' = NoFile
    /\ pcEsd' = "parse"
    /\ UNCHANGED <<cab_path, outcome>>

\* An exception leaves extract_xml_from_cab (or ET.fromstring): the finally
\* clause runs and the exception leaves main.
RaiseInTry(e) ==
    /\ Finally
    /\ Raised(e)
    /\ products_xml' = NoFile
    /\ UNCHANGED xml_content

\* One of the three tool methods: run the tool; if it ran and exited 0 and
\* tmpdir/products.xml exists, return what the file holds; a missing tool
\* (FileNotFoundError) or a non-zero exit (CalledProcessError) is passed over.
ToolMethod(method, nextMethod) ==
    /\ pcEsd = method
    /\ attempted' = Append(attempted, method)
    /\ IF method \notin tools
          THEN /\ pcEsd' = nextMethod
               /\ UNCHANGED <<products_xml, xml_content, cab_path, outcome>>
          ELSE \/ \E w \in {products_xml} \cup FileTexts :
                    /\ products_xml' = w
                    /\ pcEsd' = nextMethod
                    /\ UNCHANGED <<xml_content, cab_path, outcome>>
               \/ \E w \in {products_xml} \cup FileTexts :
                    IF w = NoFile
                       THEN /\ pcEsd' = nextMethod
                            /\ UNCHANGED <<products_xml, xml_content, cab_path,
                                           outcome>>
                       ELSE IF Decodable(w)
                       THEN ExtractReturns(w)
                       ELSE RaiseInTry("UnicodeDecodeError")
    /\ UNCHANGED <<tools, served, root, file_elem, found, win_esd, win_wim,
                   started>>
    /\ UNCHANGED <<cab_data, run, prev>>
    /\ UNCHANGED isoVars

\* lines 66-75
Cabextract == ToolMethod("cabextract", "tar")
\* lines 77-86
Tar == ToolMethod("tar", "7z")
\* lines 88-97
SevenZ == ToolMethod("7z", "raw")

\* lines 99-109: the scan of the raw bytes, and the raise when it finds nothing.
ScanCab(buffers) ==
    /\ pcEsd = "raw"
    /\ attempted' = Append(attempted, "raw")
    /\ \E data \in buffers :
          /\ cab_data' = data
          /\ LET text == ScanXml(data) IN
             IF text = NoText THEN RaiseInTry("ValueError")
             ELSE IF Decodable(text) THEN ExtractReturns(text)
             ELSE RaiseInTry("UnicodeDecodeError")
    /\ UNCHANGED <<tools, served, root, file_elem, found, win_esd, win_wim,
                   started, run, prev>>
    /\ UNCHANGED isoVars

\* The scan within a run of main.
RawScan == ScanCab(CabSamples)

\* The scan taken on its own, over every buffer up to MaxBuf chunks.
RawScanAnyBuffer == ScanCab(SeqsUpTo(Chunks, MaxBuf))

\* lines 127-129: ET.fromstring, then the finally clause.
Parse ==
    /\ pcEsd = "parse"
    /\ IF WellFormed(xml_content)
          THEN /\ root' = served
               /\ file_elem' = LoopStart
               /\ pcEsd' = "match"
               /\ Finally
               /\ UNCHANGED <<products_xml, xml_content, outcome>>
          ELSE /\ RaiseInTry("ParseError")
               /\ UNCHANGED <<root, file_elem>>
    /\ UNCHANGED <<tools, served, found, win_esd, win_wim, attempted, started>>
    /\ UNCHANGED <<cab_data, run, prev>>
    /\ UNCHANGED isoVars

\* lines 135-148: one iteration of the loop over the File elements.
MatchStep ==
    /\ pcEsd = "match"
    /\ file_elem <= Len(root)
    /\ LET e == root[file_elem] IN
       IF MatchesQuery(e)
          THEN IF e.FilePath = Absent \/ e.Size = AbsentSize
                  THEN Raised("AttributeError") /\ UNCHANGED <<found, file_elem>>
                  ELSE /\ found' = [url |-> e.FilePath, size |-> SizeInGiB(e.Size)]
                       /\ pcEsd' = "if_not_found"
                       /\ UNCHANGED <<file_elem, outcome>>
          ELSE /\ file_elem' = file_elem + 1
               /\ UNCHANGED <<pcEsd, found, outcome>>
    /\ UNCHANGED <<tools, served, cab_path, products_xml, xml_content, root,
                   win_esd, win_wim, attempted, started>>
    /\ UNCHANGED <<cab_data, run, prev>>
    /\ UNCHANGED isoVars

\* The loop runs out of elements.
MatchExhausted ==
    /\ pcEsd = "match"
    /\ file_elem > Len(root)
    /\ pcEsd' = "if_not_found"
    /\ UNCHANGED <<tools, served, cab_path, products_xml, xml_content, root,
                   file_elem, found, win_esd, win_wim, outcome, attempted, started>>
    /\ UNCHANGED <<cab_data, run, prev>>
    /\ UNCHANGED isoVars

\* lines 150-154
IfNotFound ==
    /\ pcEsd = "if_not_found"
    /\ IF NotFound(found)
          THEN Exit1("not_found")
          ELSE pcEsd' = "if_exists" /\ UNCHANGED outcome
    /\ UNCHANGED <<tools, served, cab_path, products_xml, xml_content, root,
                   file_elem, found, win_esd, win_wim, attempted, started>>
    /\ UNCHANGED <<cab_data, run, prev>>
    /\ UNCHANGED isoVars

\* lines 157-162: skip the download when win.esd exists, else download_file.
\* requests.get does not raise for an HTTP error status: the error body is
\* written to win.esd like any other.
DownloadEsd ==
    /\ pcEsd = "if_exists"
    /\ IF win_esd # "absent"
          THEN /\ pcEsd' = "convert"
               /\ UNCHANGED <<win_esd, outcome, started>>
          ELSE /\ started' = started \cup {"download_esd"}
               /\ \/ /\ win_esd' \in {"complete", "errorpage"}
                     /\ pcEsd' = "convert"
                     /\ UNCHANGED outcome
                  \/ /\ Raised("ConnectionError")
                     /\ UNCHANGED win_esd
                  \/ /\ Raised("ChunkedEncodingError")
                     /\ win_esd' = "partial"
    /\ UNCHANGED <<tools, served, cab_path, products_xml, xml_content, root,
                   file_elem, found, win_wim, attempted>>
    /\ UNCHANGED <<cab_data, run, prev>>
    /\ UNCHANGED isoVars

\* lines 165-178: wimlib-imagex export; its return code is printed, not raised.
Convert ==
    /\ pcEsd = "convert"
    /\ started' = started \cup {"convert"}
    /\ \/ win_wim' = "created" /\ outcome' = "converted"
       \/ UNCHANGED win_wim /\ outcome' = "convert_error"
    /\ pcEsd' = "done"
    /\ UNCHANGED <<tools, served, cab_path, products_xml, xml_content, root,
                   file_elem, found, win_esd, attempted>>
    /\ UNCHANGED <<cab_data, run, prev>>
    /\ UNCHANGED isoVars

\* The loop over the File elements has ended in this run (by break, by
\* running out of elements, or by the exception of line 145/146).
MatchEnded ==
    /\ cab_path = "unlinked"
    /\ outcome \notin {"ValueError", "UnicodeDecodeError", "ParseError"}
    /\ pcEsd # "match"

\* The script is started again after a run has ended: a new process, with
\* only the host's files (win.esd, win.wim) and tools carried over.
NewRun ==
    /\ pcEsd \in {"done", "exit1", "raised"}
    /\ run < MaxRuns
    /\ run' = run + 1
    /\ prev' = IF MatchEnded
                  THEN [done |-> TRUE, found |-> found, file_elem |-> file_elem,
                        crashed |-> (outcome = "AttributeError")]
                  ELSE prev
    /\ pcEsd' = "check_tools"
    /\ cab_path' = "none"
    /\ products_xml' = NoFile
    /\ xml_content' = NoText
    /\ root' = <<>>
    /\ file_elem' = 0
    /\ found' = NoFound
    /\ outcome' = "none"
    /\ attempted' = <<>>
    /\ started' = {}
    /\ cab_data' = NoText
    /\ UNCHANGED <<tools, served, win_esd, win_wim>>
    /\ UNCHANGED isoVars

NextEsd ==
    \/ CheckTools \/ DownloadCab \/ Cabextract \/ Tar \/ SevenZ \/ RawScan
    \/ Parse \/ MatchStep \/ MatchExhausted \/ IfNotFound \/ DownloadEsd
    \/ Convert

\* The other script is not running.
IdleEsd ==
    /\ pcEsd = "idle"
    /\ tools = {}
    /\ served = <<>>
    /\ cab_path = "none"
    /\ products_xml = NoFile
    /\ xml_content = NoText
    /\ root = <<>>
    /\ file_elem = 0
    /\ found = NoFound
    /\ win_esd = "absent"
    /\ win_wim = "absent"
    /\ outcome = "none"
    /\ attempted = <<>>
    /\ started = {}
    /\ cab_data = NoText
    /\ run = 0
    /\ prev = NoPrev

IdleIso ==
    /\ pcIso = "idle"
    /\ endpoint = 0
    /\ content = NoContent
    /\ linkid = 0
    /\ base = 0
    /\ iso = 0
    /\ iso_url = NoUrl
    /\ requested = <<>>
    /\ probed = <<>>
    /\ lastStatus = 0
    /\ first2xx = <<0, 0>>
    /\ first200 = <<0, 0>>
    /\ anyReply = FALSE
    /\ via = "none"
    /\ errors = {}
    /\ tested = <<>>
    /\ lastLocation = "none"

----------------------------------------------------------------------------
\* Specifications: one per script (each script is its own process and run).

\* python download_iso.py
StartIso == InitIso /\ IdleEsd
SpecIso == StartIso /\ [][NextIso]_vars

\* The script is one sequential process: a step that can be taken is taken.
FairSpecIso == SpecIso /\ WF_vars(NextIso)

\* python download_iso.py, with the download that follows the resolution
SpecIsoMain == StartIso /\ [][NextIso \/ DownloadIso]_vars

\* python download_esd.py
StartEsd == InitEsd /\ IdleIso
SpecEsd == StartEsd /\ [][NextEsd]_vars

\* python download_esd.py, run again and again on a host where win.esd does
\* not exist at first, the vendor serving the same catalog throughout.
StartRuns == StartEsd /\ win_esd = "absent"
SpecRuns == StartRuns /\ [][NextEsd \/ NewRun]_vars

\* extract_xml_from_cab at its last resort, after the three tools gave nothing:
\* the raw scan applied to a .cab of any content.
StartScan ==
    /\ IdleIso
    /\ pcEsd = "raw"
    /\ tools \in { t \in SUBSET ToolNames : check_tools(t) = "ok" }
    /\ served = <<Canon>>
    /\ cab_path = "exists"
    /\ products_xml = NoFile
    /\ xml_content = NoText
    /\ root = <<>>
    /\ file_elem = 0
    /\ found = NoFound
    /\ win_esd = "absent"
    /\ win_wim = "absent"
    /\ outcome = "none"
    /\ attempted = <<"cabextract", "tar", "7z">>
    /\ started = {}
    /\ cab_data = NoText
    /\ run = 1
    /\ prev = NoPrev
SpecScan == StartScan /\ [][RawScanAnyBuffer]_vars

Init == StartIso \/ StartEsd

Next == NextIso \/ NextEsd

Spec == Init /\ [][Next]_vars

----------------------------------------------------------------------------
\* Properties of download_iso.py.

\* The 15 pairs in base-path-major order, stated without the loops.
AllPairsBaseMajor ==
    [k \in 1..(Len(base_urls) * Len(iso_names)) |->
        <<((k - 1) \div Len(iso_names)) + 1, ((k - 1) % Len(iso_names)) + 1>>]

AllEndpoints == [k \in 1..Len(api_endpoints) |-> k]

None == <<0, 0>>

\* C2: whatever the requests and probes answer (a body, any status, an error,
\* a timeout, an undecodable body), get_windows_iso_url eventually returns,
\* what it returns is a URL, and it never raises.
C2_AlwaysReturnsUrl ==
    /\ <>(pcIso = "returned")
    /\ [](pcIso # "raised")
    /\ [](pcIso = "returned" => IsUrl(iso_url))

\* C2's case: a run in which a request timed out, a body was undecodable and a
\* probe got an HTTP error, and which returned all the same.
C2_Witness ==
    /\ pcIso = "returned"
    /\ {"timeout", "UnicodeDecodeError", "HTTPError"} \subseteq errors

\* C3: when every request and every probe failed, the function has returned
\* (not raised) exactly the hardcoded fallback link, after requesting all 3
\* endpoints and probing all 15 pairs.
C3_AllFailFallback ==
    (pcIso \in {"returned", "raised"} /\ ~anyReply) =>
        /\ pcIso = "returned"
        /\ iso_url = FallbackUrl
        /\ requested = AllEndpoints
        /\ Len(requested) = 3
        /\ probed = AllPairsBaseMajor
        /\ Len(probed) = 15

\* C3's case: the function ended and nothing ever answered.
C3_Witness ==
    /\ pcIso = "returned"
    /\ ~anyReply
    /\ errors = ProbeErrors \cup RequestErrors

\* The part of C4 that does not depend on which statuses count as success:
\* no Stage 2 probe before all Stage 1 endpoints were requested without a
\* return, and Stage 3 only after all pairs were probed.
StagesInOrder ==
    /\ probed # <<>> =>
          /\ requested = AllEndpoints
          /\ via \notin {"stage1_direct", "stage1_linkid"}
    /\ pcIso = "stage3" \/ via = "stage3" =>
          /\ requested = AllEndpoints
          /\ probed = AllPairsBaseMajor

\* C4 as stated: the stages run in order, and once a Stage 2 probe has reported
\* a success status (any 2xx), Stage 3 is never reached and the function, when
\* it has returned, returned that URL.
C4_StagesInOrder_AsStated ==
    /\ StagesInOrder
    /\ first2xx # None =>
          /\ pcIso # "stage3" /\ via # "stage3"
          /\ pcIso = "returned" => iso_url = CdnUrl(first2xx[1], first2xx[2])

\* C4 amended: the same with "reported status 200" for "reported a success
\* status".
C4_StagesInOrder ==
    /\ StagesInOrder
    /\ first200 # None =>
          /\ pcIso # "stage3" /\ via # "stage3"
          /\ pcIso = "returned" /\ iso_url = CdnUrl(first200[1], first200[2])

\* C4's case: Stage 1 gave nothing, a Stage 2 probe in the second base path
\* reported 200 and its URL was returned.
C4_Witness ==
    /\ pcIso = "returned"
    /\ via = "stage2"
    /\ requested = AllEndpoints
    /\ first200 = <<2, 3>>
    /\ iso_url = CdnUrl(2, 3)

\* C5 as stated: pairs are probed in base-path-major order, and the first pair
\* whose probe reported a success status (any 2xx) is the last one probed and
\* the one returned.
C5_FirstSuccessWins_AsStated ==
    /\ IsPrefix(probed, AllPairsBaseMajor)
    /\ first2xx # None =>
          /\ Last(probed) = first2xx
          /\ pcIso = "returned"
          /\ iso_url = CdnUrl(first2xx[1], first2xx[2])

\* C5 amended: pairs are probed in base-path-major order; the first pair whose
\* probe reported status 200 is the last one probed and the one returned, and
\* a return from Stage 2 is always such a pair.
C5_FirstSuccessWins ==
    /\ IsPrefix(probed, AllPairsBaseMajor)
    /\ first200 # None =>
          /\ Last(probed) = first200
          /\ pcIso = "returned"
          /\ via = "stage2"
          /\ iso_url = CdnUrl(first200[1], first200[2])
    /\ via = "stage2" =>
          /\ first200 # None
          /\ lastStatus = 200

\* C5's case: the first pair of the third base path answered 200 after every
\* pair of the first two base paths was passed over, one of them with a 204.
C5_Witness ==
    /\ via = "stage2"
    /\ iso_url = CdnUrl(3, 1)
    /\ Len(probed) = 11
    /\ first2xx # first200

----------------------------------------------------------------------------
\* Properties of download_esd.py.

EsdEnded == pcEsd \in {"done", "exit1", "raised"}

MethodOrder == <<"cabextract", "tar", "7z", "raw">>

\* Exact, case-sensitive equality with the query, stated on the entry alone.
EqualsQuery(e) ==
    /\ e.LanguageCode = "en-us"
    /\ e.Edition = "EnterpriseN"
    /\ e.Architecture = "x64"

\* Index of the earliest entry of cat equal to the query, 0 when there is none.
FirstEqual(cat) ==
    IF \E i \in 1..Len(cat) : EqualsQuery(cat[i])
       THEN CHOOSE i \in 1..Len(cat) :
              /\ EqualsQuery(cat[i])
              /\ \A j \in 1..(i - 1) : ~EqualsQuery(cat[j])
       ELSE 0

\* ET.fromstring has returned in this run.
Parsed ==
    /\ cab_path = "unlinked"
    /\ outcome \notin {"ValueError", "UnicodeDecodeError", "ParseError"}

\* C1: once a run that created the temporary .cab file has ended, however it
\* ended, the file is gone.
C1_TempFileRemoved ==
    (EsdEnded /\ cab_path # "none") => cab_path = "unlinked"

\* C6: a run never fails for lack of an extraction tool or of an extractable
\* document before all four methods, 7z and the raw scan included, were tried.
C6_AllMethodsTriedBeforeFailing ==
    (EsdEnded /\ outcome \in {"missing_cab_tool", "ValueError"}) =>
        attempted = MethodOrder

\* C7: the methods are tried in the order cabextract, tar, 7z, raw scan, and
\* what extract_xml_from_cab returns is never the empty document.
C7_NeverReturnsEmpty ==
    /\ IsPrefix(attempted, MethodOrder)
    /\ xml_content # <<>>

\* C8: an entry without a download URL is never the match, and it never makes
\* the run fail.
C8_MissingFieldSkipped ==
    /\ found # NoFound => found.url # Absent
    /\ ~(/\ pcEsd = "raised"
         /\ outcome = "AttributeError"
         /\ root[file_elem].FilePath = Absent)

\* C9: the match is the earliest entry equal to the query: whenever a match
\* was made it is that entry's URL, found at that entry; no entry after it is
\* ever examined; and when that entry carries a URL and a size, the loop ends
\* with it as the match.
C9_EarliestMatchWins ==
    LET m == FirstEqual(root) IN
    /\ found # NoFound =>
          /\ m > 0
          /\ file_elem = m
          /\ found.url = root[m].FilePath
    /\ m > 0 => file_elem <= m
    /\ (/\ m > 0
        /\ pcEsd # "match"
        /\ root[m].FilePath # Absent
        /\ root[m].Size # AbsentSize) => found.url = root[m].FilePath

\* C9's case: two entries equal the query, with different URLs, and the match
\* was made.
C9_Witness ==
    /\ Len(root) = 2
    /\ EqualsQuery(root[1]) /\ EqualsQuery(root[2])
    /\ root[1].FilePath = "https://example/y.esd"
    /\ root[2].FilePath = "https://example/x.esd"
    /\ found # NoFound
    /\ pcEsd = "done"

\* C10: when the parsed catalog holds no entry equal to the query, the run is
\* still in the loop or at the test after it, or has ended with the not-found
\* exit (status 1); the ESD download and the conversion are never started.
C10_NoMatchNotFound ==
    (Parsed /\ FirstEqual(root) = 0) =>
        /\ pcEsd \in {"match", "if_not_found", "exit1"}
        /\ pcEsd = "exit1" => outcome = "not_found"
        /\ started = {}
        /\ found = NoFound

\* C10's case: a catalog of entries none of which equals the query, and the
\* run ended.
C10_Witness ==
    /\ pcEsd = "exit1"
    /\ outcome = "not_found"
    /\ root # <<>>
    /\ FirstEqual(root) = 0

\* C11: the size stored in the match is the entry's declared Size in bytes,
\* unchanged (the whole number, not a quotient of it).
C11_SizeInBytes ==
    found # NoFound => found.size = <<root[file_elem].Size, 1>>

----------------------------------------------------------------------------
\* Properties of the raw scan.

\* Position of the first start marker in data, 0 when there is none.
FirstStart(data) ==
    IF \E i \in 1..Len(data) : data[i] = "<?xml"
       THEN CHOOSE i \in 1..Len(data) :
              data[i] = "<?xml" /\ \A j \in 1..(i - 1) : data[j] # "<?xml"
       ELSE 0

\* Position of the first end marker at or after position s, 0 when none.
FirstEndFrom(data, s) ==
    IF s > 0 /\ \E i \in s..Len(data) : data[i] = "</Products>"
       THEN CHOOSE i \in s..Len(data) :
              data[i] = "</Products>" /\ \A j \in s..(i - 1) : data[j] # "</Products>"
       ELSE 0

Scanned == cab_data # NoText

\* The scan fell through to the raise of the not-extractable error.
NotExtractable == pcEsd = "raised" /\ outcome = "ValueError"

\* The scan returned exactly data[s..e], the end marker included.
ReturnedSlice(s, e) ==
    /\ pcEsd = "parse"
    /\ outcome = "none"
    /\ xml_content = [k \in 1..(e - s + 1) |-> cab_data[s + k - 1]]

\* C12 as stated: for every buffer the scan returns the bytes from the first
\* start marker through the first end marker at or after it, and when either
\* is missing it ends in the not-extractable error.
C12_RawScanSlice_AsStated ==
    Scanned =>
        LET s == FirstStart(cab_data)
            e == FirstEndFrom(cab_data, s)
        IN  IF s > 0 /\ e > 0 THEN ReturnedSlice(s, e) ELSE NotExtractable

\* C12 amended: the same for every buffer whose slice is valid UTF-8; a slice
\* that is not makes the scan raise UnicodeDecodeError.
C12_RawScanSlice ==
    Scanned =>
        LET s == FirstStart(cab_data)
            e == FirstEndFrom(cab_data, s)
        IN  IF s > 0 /\ e > 0
               THEN IF \E k \in s..e : cab_data[k] = "\\xff"
                       THEN pcEsd = "raised" /\ outcome = "UnicodeDecodeError"
                       ELSE ReturnedSlice(s, e)
               ELSE NotExtractable

\* C12's case: an end marker before the start marker, a second one after it,
\* and trailing bytes that stay out of the result.
C12_Witness ==
    /\ cab_data = <<"</Products>", "<?xml", "</Products>", "junk">>
    /\ xml_content = <<"<?xml", "</Products>">>
    /\ pcEsd = "parse"

----------------------------------------------------------------------------
\* Properties of the steps after the match.

\* This run's download of win.esd was answered with an HTTP error status.
EsdDownloadHttpError == "download_esd" \in started /\ win_esd = "errorpage"

\* This run's download of win.esd met a transport error.
EsdDownloadTransportError ==
    "download_esd" \in started /\ outcome \in DownloadErrors

\* C13: a failed bulk download (transport error or HTTP error status) ends the
\* run in failure, and the conversion is not executed after it.
C13_FailureIsTerminal ==
    (EsdDownloadHttpError \/ EsdDownloadTransportError) =>
        /\ "convert" \notin started
        /\ EsdEnded => pcEsd = "raised"

----------------------------------------------------------------------------
\* Properties over several runs.

\* C14: the match of a run ends as the match of an earlier run over the same
\* catalog did: the same entry, the same URL and size (or the same failure),
\* whatever the earlier runs left behind.
C14_MatchDeterministic ==
    (prev.done /\ MatchEnded) =>
        /\ found = prev.found
        /\ file_elem = prev.file_elem
        /\ (outcome = "AttributeError") = prev.crashed

\* C14's case: a second run whose match ended with the second entry of the
\* catalog, as the first run's did.
C14_Witness ==
    /\ run = 2
    /\ prev.done
    /\ MatchEnded
    /\ file_elem = 2
    /\ found.url = "https://example/y.esd"
    /\ win_esd # "absent"

\* C18: whenever the conversion is invoked, in whatever run, win.esd is a
\* complete download of the matched URL; in particular a run that skipped
\* the download because win.esd exists converts a complete file.
C18_ConvertsOnlyCompleteDownload ==
    ("convert" \in started /\ "download_esd" \notin started) =>
        win_esd = "complete"

----------------------------------------------------------------------------
\* Properties of Stage 1.

\* C15: endpoints are requested at most once each and in list order; the
\* function never raises; from a request it goes to the LinkID loop, to a
\* return, or - after an error or a body with nothing usable - to the next
\* endpoint, and to Stage 2 exactly after the last one.
C15_EndpointsOnceInOrder ==
    /\ [](/\ IsPrefix(requested, AllEndpoints)
          /\ pcIso # "raised"
          /\ pcIso = "stage1" => endpoint = Len(requested) + 1
          /\ pcIso = "linkid" => endpoint = Len(requested)
          /\ pcIso \in {"stage2", "stage3"} => requested = AllEndpoints)
    /\ [][requested' # requested =>
            /\ pcIso = "stage1"
            /\ requested' = Append(requested, endpoint)
            /\ pcIso' \in {"stage1", "stage2", "linkid", "returned"}
            /\ pcIso' = "stage1" => endpoint' = endpoint + 1 /\ endpoint < 3
            /\ pcIso' = "stage2" => endpoint = 3
            /\ (errors' # errors \/ content' = NoContent) =>
                  pcIso' \in {"stage1", "stage2"}]_vars

\* C15's case: all three endpoints were requested, one timed out and one
\* answered without anything usable; Stage 2 is about to start.
C15_Witness ==
    /\ pcIso = "stage2"
    /\ probed = <<>>
    /\ requested = <<1, 2, 3>>
    /\ "timeout" \in errors
    /\ anyReply

\* C16: a body with a direct URL ends the function at once with the first
\* such URL: no LinkID of that body is probed, no later endpoint or pair is
\* tried; the LinkID loop is entered only for a body without a direct URL.
C16_DirectUrlFirst ==
    /\ content.iso_urls # <<>> =>
          /\ pcIso = "returned"
          /\ via = "stage1_direct"
          /\ iso_url = DirectUrl(content.iso_urls[1])
          /\ tested = <<>>
          /\ lastLocation = "none"
          /\ probed = <<>>
          /\ Len(requested) = endpoint
    /\ via = "stage1_direct" => content.iso_urls # <<>>
    /\ (pcIso = "linkid" \/ tested # <<>>) => content.iso_urls = <<>>

\* C16's case: the second endpoint's body held two direct URLs and link
\* identifiers as well; the first direct URL was returned.
C16_Witness ==
    /\ via = "stage1_direct"
    /\ endpoint = 2
    /\ content.iso_urls = <<2, 1>>
    /\ content.linkids # <<>>
    /\ iso_url = DirectUrl(2)

\* C17: the identifiers of a body are probed one at a time in order of
\* appearance; one whose probe failed or resolved elsewhere is followed by the
\* next; the first whose probe resolved to a location with the extension is
\* returned at once, with nothing probed after it.
C17_LinkIdsInOrder ==
    /\ IsPrefix(tested, content.linkids)
    /\ pcIso = "linkid" =>
          /\ linkid = Len(tested) + 1
          /\ linkid <= Len(content.linkids)
          /\ lastLocation \in {"none", "error", "other"}
          /\ (lastLocation = "none") = (tested = <<>>)
    /\ lastLocation = "iso" =>
          /\ pcIso = "returned"
          /\ via = "stage1_linkid"
    /\ via = "stage1_linkid" =>
          /\ lastLocation = "iso"
          /\ iso_url = LinkUrl(Last(tested))
          /\ Len(tested) = linkid
          /\ Len(requested) = endpoint
          /\ probed = <<>>

\* C17's case: the first identifier of the body was passed over, the second
\* resolved to an .iso and was returned.
C17_Witness ==
    /\ via = "stage1_linkid"
    /\ content.linkids = <<2, 1>>
    /\ tested = <<2, 1>>
    /\ iso_url = LinkUrl(1)

====
